---- MODULE Spec2Model ----
(***************************************************************************)
(* A model of gocryptfs' name-transformation layer and command-line        *)
(* front-end:                                                              *)
(*   - the one-entry DirIV cache (lookup / store / Clear under a           *)
(*     sync.RWMutex), used concurrently by EncryptPathDirIV and by         *)
(*     directory mutations,                                                *)
(*   - ReadDirIV and the directory walk of EncryptPathDirIV,               *)
(*   - PKCS#7 padding (pad16 / unPad16),                                   *)
(*   - main(): -init, config loading and feature-flag reconciliation.      *)
(***************************************************************************)
EXTENDS Integers, Sequences, FiniteSets, TLC

VARIABLES
    \* ---- PKCS#7 padding ----
    padIn,      \* the byte sequence handed to pad16 / unPad16
    padStage,   \* "in" | "padded" | "unpadded" | "direct"
    padded,     \* result of pad16(padIn)
    unpadded    \* result of unPad16 (of padded.data, or of padIn directly)

VARIABLES
    \* ---- backing store, DirIV cache, EncryptPathDirIV callers ----
    fs,         \* ciphertext directory (absolute path) -> its state
    cache,      \* the dirIVCache fields cleared, iv, dir, translatedDir
    cacheGen,   \* history: how many mutations the backing store had seen
                \* when the walk that stored the entry began to read it
    pc,         \* position of every thread
    loc,        \* locals of every EncryptPathDirIV caller
    res,        \* what the step just taken returned, if an EncryptPathDirIV
                \* call returned in it
    calls,      \* EncryptPathDirIV calls made so far
    mut,        \* the directory operation the mutating thread is in
    mutCount,   \* history: mutations applied to the backing store
    covered     \* history: mutations that are complete, Clear() returned

VARIABLES
    \* ---- lookup, store and Clear called concurrently ----
    lock,       \* dirIVCache.lock: the readers inside and the writer inside
    cacheBy,    \* history: the store calls that wrote c.iv and c.translatedDir
    tpc,        \* position of every thread
    targ,       \* arguments of every thread's call
    tloc,       \* lookup's return value under construction
    tres,       \* what the step just taken returned, if a lookup returned
    ops         \* cache calls made so far

VARIABLES
    \* ---- lookup, store and Clear called one after the other ----
    lastOp,     \* history: the most recent store or Clear call
    lk,         \* what the step just taken returned, if it was a lookup
    nseq        \* cache calls made so far

VARIABLES
    \* ---- one ReadDirIV call and a concurrent rmdir ----
    rdDir,      \* the ciphertext directory ReadDirIV is called on
    rdPc,       \* position of the ReadDirIV call
    rdSeen,     \* history: the directory as ioutil.ReadFile found it
    rdOut,      \* what ReadDirIV returned, and whether it warned
    rdSteps     \* steps other threads took on the directory

VARIABLES
    \* ---- one run of main() ----
    args,       \* the argContainer flagSet.Parse filled, and the passwords typed
    disk,       \* CIPHERDIR: empty?, gocryptfs.conf, gocryptfs.diriv
    cliPc,      \* position of main()
    exit,       \* the os.Exit code, once the process has exited
    confFile,   \* the *configfile.ConfFile loadConfig returned (or nil)
    frontendArgs \* the fusefrontend.Args handed to fusefrontend.NewFS

padVars == <<padIn, padStage, padded, unpadded>>
lockVars == <<lock, cacheBy, tpc, targ, tloc, tres, ops>>
walkVars == <<fs, cacheGen, pc, loc, res, calls, mut, mutCount, covered>>

seqVars == <<lastOp, lk, nseq>>
rdVars == <<rdDir, rdPc, rdSeen, rdOut, rdSteps>>
cliVars == <<args, disk, cliPc, exit, confFile, frontendArgs>>

vars == <<cache, padVars, walkVars, lockVars, seqVars, rdVars, cliVars>>

nonPadVars == <<cache, walkVars, lockVars, seqVars, rdVars, cliVars>>
nonWalkVars == <<padVars, lockVars, seqVars, rdVars, cliVars>>
nonLockVars == <<padVars, walkVars, seqVars, rdVars, cliVars>>
nonSeqVars == <<padVars, walkVars, lockVars, rdVars, cliVars>>
nonRdVars == <<cache, padVars, walkVars, lockVars, seqVars, cliVars>>
nonCliVars == <<cache, padVars, walkVars, lockVars, seqVars, rdVars>>

(***************************************************************************)
(* Bounds and program constants                                            *)
(***************************************************************************)
\* aes.BlockSize
BlockSize == 16
\* a Go byte is 8 bits wide
ByteMod == 256
\* longest constant-filled body of a padding input
MaxBody == 33
\* longest free tail of a padding input
MaxTail == 2

\* the byte values padding inputs are drawn from (0, in-range padding
\* lengths, the block size, out-of-range values)
ByteVals == {0, 1, 2, 3, 16, 17, 255}

(***************************************************************************)
(* pad16 / unPad16                                                         *)
(***************************************************************************)
\* a Go result: kind "ok" (data, nil), "err" (nil, error) or "panic"
Ok(data) == [kind |-> "ok", err |-> "", data |-> data]
Err(msg) == [kind |-> "err", err |-> msg, data |-> <<>>]
Panic(msg) == [kind |-> "panic", err |-> msg, data |-> <<>>]
NoResult == [kind |-> "none", err |-> "", data |-> <<>>]

\* padLen := aes.BlockSize - oldLen%aes.BlockSize; if padLen == 0 {...}
PadLenOf_NoFullBlock(oldLen) == (BlockSize - (oldLen % BlockSize)) % BlockSize
PadLenOf(oldLen) ==
    LET padLen == BlockSize - (oldLen % BlockSize)
    IN  IF padLen = 0 THEN BlockSize ELSE padLen

pad16(orig) ==
    LET oldLen == Len(orig)
    IN  IF oldLen = 0
        THEN Panic("Padding zero-length string makes no sense")
        ELSE LET padLen  == PadLenOf(oldLen)
                 newLen  == oldLen + padLen
                 padByte == padLen % ByteMod
             IN  Ok([i \in 1..newLen |-> IF i <= oldLen THEN orig[i] ELSE padByte])

\* the loop "for i := oldLen - padLen; i < oldLen; i++" (0-based i, 1-based here)
\* (a loop that starts one byte late)
PaddingIdentical_OffByOne(padded_, padLen) ==
    \A i \in (Len(padded_) - padLen + 2)..Len(padded_) : padded_[i] = padded_[Len(padded_)]
PaddingIdentical(padded_, padLen) ==
    \A i \in (Len(padded_) - padLen + 1)..Len(padded_) : padded_[i] = padded_[Len(padded_)]

unPad16(padded_) ==
    LET oldLen == Len(padded_)
    IN  IF oldLen % BlockSize # 0 THEN Err("Unaligned size")
        \* padded[oldLen-1] with oldLen = 0: index out of range
        ELSE IF oldLen = 0 THEN Panic("index out of range [-1]")
        ELSE LET padByte == padded_[oldLen]
                 padLen  == padByte
                 newLen  == oldLen - padLen
             IN  IF padLen <= 0 THEN Err("Padding cannot be zero-length")
                 ELSE IF padLen > BlockSize THEN Err("Padding too long")
                 ELSE IF ~PaddingIdentical(padded_, padLen) THEN Err("Padding byte is invalid")
                 ELSE IF newLen = 0 THEN Err("Unpadded length is zero")
                 ELSE Ok(SubSeq(padded_, 1, newLen))

\* inputs: a constant-filled body followed by a free tail
Fill(n, b) == [i \in 1..n |-> b]
Tails == UNION {[1..n -> ByteVals] : n \in 0..MaxTail}
PadInputs == {Fill(n, b) \o t : n \in 0..MaxBody, b \in ByteVals, t \in Tails}

PadIdle ==
    /\ padIn = <<>>
    /\ padStage = "off"
    /\ padded = NoResult
    /\ unpadded = NoResult

PadInit ==
    /\ padIn \in PadInputs
    /\ padStage = "in"
    /\ padded = NoResult
    /\ unpadded = NoResult

\* pad16(padIn)
Pad16Call ==
    /\ padStage = "in"
    /\ padded' = pad16(padIn)
    /\ padStage' = "padded"
    /\ UNCHANGED <<padIn, unpadded, nonPadVars>>

\* unPad16(pad16(padIn))
UnPad16OfPadded ==
    /\ padStage = "padded"
    /\ padded.kind = "ok"
    /\ unpadded' = unPad16(padded.data)
    /\ padStage' = "unpadded"
    /\ UNCHANGED <<padIn, padded, nonPadVars>>

\* unPad16(padIn)
UnPad16Call ==
    /\ padStage = "in"
    /\ unpadded' = unPad16(padIn)
    /\ padStage' = "direct"
    /\ UNCHANGED <<padIn, padded, nonPadVars>>

PadNext == Pad16Call \/ UnPad16OfPadded \/ UnPad16Call

(***************************************************************************)
(* Names, paths and the backing store                                      *)
(***************************************************************************)
\* dirIVLen
dirIVLen == 16
\* EncryptPathDirIV calls, of all calling threads together
MaxCalls == 2
\* directory mutations (mkdir, rmdir, rename) of the mutating thread
MaxMutations == 1

\* 16-byte IV values are numbered from 1; 0 is the nil slice
NilIV == 0
\* the DirIV of the root directory, written once by -init
RootIV == 1
\* the DirIV of the directory "d" at mount
MountIV == 2
\* cryptocore.RandBytes(dirIVLen): a value no earlier call returned
RandBytes(drawn) == MountIV + 1 + drawn

\* the threads: FUSE requests that translate a path, and one that mutates
Walkers == {"w1", "w2"}
Mutator == "m"
NoProc == "none"

\* a path component: a plaintext name (tweak 0) or a name encrypted under
\* the DirIV "tweak"
PlainNames == {"d", "e"}
PlainName(n) == [name |-> n, tweak |-> NilIV]
\* the component "." that filepath.Dir returns for a path without a slash
Dot == [name |-> ".", tweak |-> NilIV]
\* rootDir, the absolute path of the ciphertext root
RootDir == [name |-> "/cipherdir", tweak |-> NilIV]

\* encryptName: pad, EME-encrypt under the DirIV, base64-encode; the result
\* is determined by (plainName, iv) and is different for different inputs
encryptName(plainName, iv) == [name |-> plainName.name, tweak |-> iv]

\* a path string is the sequence of its tokens, names and "/" separators;
\* "" is the empty sequence
Slash == [name |-> "/", tweak |-> NilIV]
\* filepath.Clean of a path without "..", "//" or a trailing "/": a leading
\* "./" goes
Clean(path) ==
    IF Len(path) >= 3 /\ path[1] = Dot /\ path[2] = Slash
    THEN SubSeq(path, 3, Len(path))
    ELSE path
\* the position of the last "/" of path, 0 if it has none
RECURSIVE LastSlash(_, _)
LastSlash(path, i) ==
    IF i = 0 THEN 0 ELSE IF path[i] = Slash THEN i ELSE LastSlash(path, i - 1)
\* filepath.Dir: "." for a path without "/", else what precedes the last "/"
Dir(path) ==
    LET i == LastSlash(path, Len(path))
    IN  IF i <= 1 THEN <<Dot>> ELSE Clean(SubSeq(path, 1, i - 1))
\* filepath.Base of a non-empty path: what follows the last "/"
Base(path) == path[Len(path)]
\* strings.Split(path, "/") of a non-empty clean path: its names in order
Split(path) == SelectSeq(path, LAMBDA t : t # Slash)
\* strings.Join(names, "/")
RECURSIVE JoinNames(_)
JoinNames(names) ==
    IF Len(names) = 0 THEN <<>>
    ELSE IF Len(names) = 1 THEN names
    ELSE <<Head(names), Slash>> \o JoinNames(Tail(names))
\* filepath.Join(wd, name)
JoinPath(wd, name) == Clean(wd \o <<Slash, name>>)
\* cParentDir + "/" + cBaseName
Concat(cParentDir, cBaseName) == cParentDir \o <<Slash, cBaseName>>

\* the plaintext paths the kernel asks for: the root, the entries of the
\* root and the entries of the directories of the root
PlainPaths ==
    {<<>>} \cup {<<PlainName(a)>> : a \in PlainNames}
           \cup {<<PlainName(a), Slash, PlainName(b)>> : a \in PlainNames, b \in PlainNames}

\* a file: absent, or len bytes whose content is numbered id
NoFile == [present |-> FALSE, len |-> 0, id |-> NilIV]
File(len, id) == [present |-> TRUE, len |-> len, id |-> id]
\* a directory: absent, or present with its gocryptfs.diriv file
NoDir == [exists |-> FALSE, diriv |-> NoFile]
DirWith(f) == [exists |-> TRUE, diriv |-> f]

\* the ciphertext directory of the plaintext directory n in the root
CipherDirOf(n) == JoinPath(<<RootDir>>, encryptName(PlainName(n), RootIV))
\* the directory found at the absolute ciphertext path wd
DirAt(f, wd) == IF wd \in DOMAIN f THEN f[wd] ELSE NoDir

\* WriteDirIV: 16 random bytes in gocryptfs.diriv
WriteDirIV(iv) == File(dirIVLen, iv)

\* ReadDirIV(dir): atRead is the directory as ioutil.ReadFile finds it,
\* atStat the directory as the os.Stat after a failed read finds it
ReadDirIV(atRead, atStat) ==
    IF ~(atRead.exists /\ atRead.diriv.present)
    THEN [iv |-> NilIV, err |-> "ENOENT", warned |-> atStat.exists]
    ELSE IF atRead.diriv.len # dirIVLen
         THEN [iv |-> NilIV, err |-> "Invalid length", warned |-> FALSE]
         ELSE [iv |-> atRead.diriv.id, err |-> "nil", warned |-> FALSE]

(***************************************************************************)
(* dirIVCache                                                              *)
(***************************************************************************)
\* the zero value of the struct: NameTransform embeds it unconstructed
NewCache == [cleared |-> FALSE, iv |-> NilIV, dir |-> <<>>, translatedDir |-> <<>>]

\* sync.RWMutex: RLock waits for the writer, Lock for the writer and readers
CanRLock(l) == l.writer = NoProc
CanLock_IgnoresReaders(l) == l.writer = NoProc
CanLock(l) == l.writer = NoProc /\ l.readers = {}
RLock(l, p) == [l EXCEPT !.readers = @ \cup {p}]
RUnlock(l, p) == [l EXCEPT !.readers = @ \ {p}]
Lock(l, p) == [l EXCEPT !.writer = p]
Unlock(l, p) == [l EXCEPT !.writer = NoProc]
NewLock == [readers |-> {}, writer |-> NoProc]

\* lookup: "if !c.cleared && c.dir == dir"
IsHit(c, dir) == ~c.cleared /\ c.dir = dir
\* lookup, as one call
lookup(c, dir) ==
    IF IsHit(c, dir)
    THEN [found |-> TRUE, iv |-> c.iv, translatedDir |-> c.translatedDir]
    ELSE [found |-> FALSE, iv |-> NilIV, translatedDir |-> <<>>]
\* store, as one call
store(c, dir, iv, translatedDir) ==
    [cleared |-> FALSE, iv |-> iv, dir |-> dir, translatedDir |-> translatedDir]
\* Clear, as one call
Clear(c) == [c EXCEPT !.cleared = TRUE]

\* history: a store call is named by its caller and the caller's call number
NoTag == [w |-> NoProc, n |-> 0]
NewCacheBy == [iv |-> NoTag, td |-> NoTag]


(***************************************************************************)
(* EncryptPathDirIV: one step for the cache lookup, one per ReadDirIV of   *)
(* the walk, one for the store.  lookup, store and Clear hold the lock for *)
(* their whole body and are steps of their own here; SpecLock below takes  *)
(* them apart into their lock operations and field accesses.               *)
(***************************************************************************)
NewLoc ==
    [plainPath |-> <<>>, parentDir |-> <<>>, iv |-> NilIV, wd |-> <<>>,
     encryptedNames |-> <<>>,
     \* history: the mutation count at the walk's first ReadDirIV, the
     \* directory and the content of its last one
     readGen |-> 0, ivFrom |-> <<>>, ivRead |-> NilIV]

NoRes ==
    [by |-> NoProc, served |-> "none", plainPath |-> <<>>, cipherPath |-> <<>>,
     err |-> "nil",
     \* history, of a hit: the mutations the backing store had seen when the
     \* entry was read from it, and those complete when the call began
     gen |-> 0, startCovered |-> 0,
     \* history, of a walk: the directory and content of its last ReadDirIV
     ivFrom |-> <<>>, ivRead |-> NilIV]

\* the arguments of "be.DirIVCache.store(parentDir, iv, cParentDir)"
StoreArgs_FullCipherPath(l) ==
    [dir |-> l.parentDir, iv |-> l.iv, translatedDir |-> JoinNames(l.encryptedNames)]
StoreArgs(l) ==
    [dir |-> l.parentDir, iv |-> l.iv, translatedDir |-> Dir(JoinNames(l.encryptedNames))]

\* the path returned on a cache hit
HitPath(plainPath, iv, cParentDir) ==
    Concat(cParentDir, encryptName(Base(plainPath), iv))

\* the call returns: the locals die
Return(w, r) ==
    /\ res' = [r EXCEPT !.by = w]
    /\ loc' = [loc EXCEPT ![w] = NewLoc]
    /\ pc' = [pc EXCEPT ![w] = "idle"]

\* EncryptPathDirIV(plainPath, rootDir) is called: the root path returns at
\* once, a cache hit returns the path built from the cached entry, a miss
\* goes on to the walk
Call(w, path) ==
    /\ pc[w] = "idle"
    /\ calls < MaxCalls
    /\ calls' = calls + 1
    /\ LET parentDir == Dir(path)
           hit == lookup(cache, parentDir)
       IN  IF path = <<>>
           THEN Return(w, [NoRes EXCEPT !.served = "root"])
           ELSE IF hit.found
           THEN Return(w, [by |-> w,
                           served |-> "hit",
                           plainPath |-> path,
                           cipherPath |-> HitPath(path, hit.iv, hit.translatedDir),
                           err |-> "nil",
                           gen |-> cacheGen,
                           startCovered |-> covered,
                           ivFrom |-> <<>>,
                           ivRead |-> NilIV])
           ELSE /\ res' = NoRes
                /\ loc' = [loc EXCEPT ![w] = [NewLoc EXCEPT
                              !.plainPath = path,
                              !.parentDir = parentDir,
                              !.wd = <<RootDir>>]]
                /\ pc' = [pc EXCEPT ![w] = "walk"]
    /\ UNCHANGED <<fs, cache, cacheGen, mut, mutCount, covered, nonWalkVars>>

\* one iteration of "for _, plainName := range plainNames"
Walk(w) ==
    /\ pc[w] = "walk"
    /\ LET l == loc[w]
           i == Len(l.encryptedNames) + 1
           plainName == Split(l.plainPath)[i]
           r == ReadDirIV(DirAt(fs, l.wd), DirAt(fs, l.wd))
           encryptedName == encryptName(plainName, r.iv)
       IN  IF r.err # "nil"
           THEN Return(w, [NoRes EXCEPT !.served = "error",
                                        !.plainPath = l.plainPath,
                                        !.err = r.err])
           ELSE /\ loc' = [loc EXCEPT ![w] = [l EXCEPT
                              !.iv = r.iv,
                              !.encryptedNames = Append(@, encryptedName),
                              !.wd = JoinPath(@, encryptedName),
                              !.readGen = IF i = 1 THEN mutCount ELSE @,
                              !.ivFrom = l.wd,
                              !.ivRead = DirAt(fs, l.wd).diriv.id]]
                /\ pc' = [pc EXCEPT ![w] =
                              IF i = Len(Split(l.plainPath)) THEN "store" ELSE "walk"]
                /\ res' = NoRes
    /\ UNCHANGED <<fs, cache, cacheGen, calls, mut, mutCount, covered, nonWalkVars>>

\* "Cache the final DirIV" and return cipherPath
Store(w) ==
    /\ pc[w] = "store"
    /\ LET a == StoreArgs(loc[w])
       IN  cache' = store(cache, a.dir, a.iv, a.translatedDir)
    /\ cacheGen' = loc[w].readGen
    /\ Return(w, [NoRes EXCEPT !.served = "walk",
                               !.plainPath = loc[w].plainPath,
                               !.cipherPath = JoinNames(loc[w].encryptedNames),
                               !.ivFrom = loc[w].ivFrom,
                               !.ivRead = loc[w].ivRead])
    /\ UNCHANGED <<fs, calls, mut, mutCount, covered, nonWalkVars>>

(***************************************************************************)
(* Directory mutations of the filesystem frontend: each changes the        *)
(* backing store and calls DirIVCache.Clear(); rename clears first         *)
(***************************************************************************)
NoMut == [src |-> "", dst |-> ""]

\* mkdir: the ciphertext directory is created with a fresh DirIV; Clear()
\* follows
Mkdir(n) ==
    /\ pc[Mutator] = "idle"
    /\ mutCount < MaxMutations
    /\ ~DirAt(fs, CipherDirOf(n)).exists
    /\ fs' = [fs EXCEPT ![CipherDirOf(n)] = DirWith(WriteDirIV(RandBytes(mutCount)))]
    /\ mutCount' = mutCount + 1
    /\ pc' = [pc EXCEPT ![Mutator] = "clear"]
    /\ res' = NoRes
    /\ UNCHANGED <<cache, cacheGen, loc, calls, mut, covered, nonWalkVars>>

\* rmdir: the sentinel and the ciphertext directory are removed; Clear()
\* follows
Rmdir(n) ==
    /\ pc[Mutator] = "idle"
    /\ mutCount < MaxMutations
    /\ DirAt(fs, CipherDirOf(n)).exists
    /\ fs' = [fs EXCEPT ![CipherDirOf(n)] = NoDir]
    /\ mutCount' = mutCount + 1
    /\ pc' = [pc EXCEPT ![Mutator] = "clear"]
    /\ res' = NoRes
    /\ UNCHANGED <<cache, cacheGen, loc, calls, mut, covered, nonWalkVars>>

\* DirIVCache.Clear() after mkdir or rmdir: the mutation is complete
MutClear ==
    /\ pc[Mutator] = "clear"
    /\ cache' = Clear(cache)
    /\ covered' = mutCount
    /\ pc' = [pc EXCEPT ![Mutator] = "idle"]
    /\ res' = NoRes
    /\ UNCHANGED <<fs, cacheGen, loc, calls, mut, mutCount, nonWalkVars>>

\* rename of directory src to the free name dst: "invalidate the
\* DirIVCache", then the underlying rename
RenameClear(src, dst) ==
    /\ pc[Mutator] = "idle"
    /\ mutCount < MaxMutations
    /\ DirAt(fs, CipherDirOf(src)).exists
    /\ ~DirAt(fs, CipherDirOf(dst)).exists
    /\ cache' = Clear(cache)
    /\ mut' = [src |-> src, dst |-> dst]
    /\ pc' = [pc EXCEPT ![Mutator] = "rename"]
    /\ res' = NoRes
    /\ UNCHANGED <<fs, cacheGen, loc, calls, mutCount, covered, nonWalkVars>>

\* the underlying rename: the mutation is complete
Rename ==
    /\ pc[Mutator] = "rename"
    /\ fs' = [fs EXCEPT ![CipherDirOf(mut.dst)] = fs[CipherDirOf(mut.src)],
                        ![CipherDirOf(mut.src)] = NoDir]
    /\ mutCount' = mutCount + 1
    /\ covered' = mutCount + 1
    /\ mut' = NoMut
    /\ pc' = [pc EXCEPT ![Mutator] = "idle"]
    /\ res' = NoRes
    /\ UNCHANGED <<cache, cacheGen, loc, calls, nonWalkVars>>

\* the backing store at mount: the root and the directory "d", each with
\* its DirIV, and no directory "e"
MountedStore ==
    [wd \in {<<RootDir>>} \cup {CipherDirOf(n) : n \in PlainNames} |->
        IF wd = <<RootDir>> THEN DirWith(WriteDirIV(RootIV))
        ELSE IF wd = CipherDirOf("d") THEN DirWith(WriteDirIV(MountIV))
        ELSE NoDir]

WalkIdle ==
    /\ fs = MountedStore
    /\ cacheGen = 0
    /\ pc = [p \in Walkers \cup {Mutator} |-> "off"]
    /\ loc = [w \in Walkers |-> NewLoc]
    /\ res = NoRes
    /\ calls = 0
    /\ mut = NoMut
    /\ mutCount = 0
    /\ covered = 0

WalkInit ==
    /\ fs = MountedStore
    /\ cache = NewCache
    /\ cacheGen = 0
    /\ pc = [p \in Walkers \cup {Mutator} |-> "idle"]
    /\ loc = [w \in Walkers |-> NewLoc]
    /\ res = NoRes
    /\ calls = 0
    /\ mut = NoMut
    /\ mutCount = 0
    /\ covered = 0

Next ==
    \/ \E w \in Walkers, path \in PlainPaths : Call(w, path)
    \/ \E w \in Walkers : Walk(w)
    \/ \E w \in Walkers : Store(w)
    \/ \E n \in PlainNames : Mkdir(n)
    \/ \E n \in PlainNames : Rmdir(n)
    \/ MutClear
    \/ \E src \in PlainNames, dst \in PlainNames : RenameClear(src, dst)
    \/ Rename

(***************************************************************************)
(* lookup, store and Clear taken apart: threads call them concurrently,    *)
(* one step per lock operation and per access to a cache field             *)
(***************************************************************************)
\* the threads calling the cache
Threads == {"t1", "t2"}
\* cache calls, of all threads together
MaxOps == 3

\* what EncryptPathDirIV stores after walking "d" and "d/e"
StoreCalls ==
    {[dir |-> <<Dot>>, iv |-> RootIV, translatedDir |-> <<Dot>>],
     [dir |-> <<PlainName("d")>>, iv |-> MountIV,
      translatedDir |-> <<encryptName(PlainName("d"), RootIV)>>]}
\* the directories it looks up
LookupDirs == {a.dir : a \in StoreCalls}

\* the arguments of a call, and (history) the number of the call
NoArg == [dir |-> <<>>, iv |-> NilIV, translatedDir |-> <<>>, n |-> 0]
NoLookup ==
    [by |-> NoProc, found |-> FALSE, iv |-> NilIV, translatedDir |-> <<>>,
     \* history: the store calls that wrote what was read
     ivBy |-> NoTag, tdBy |-> NoTag]

\* a thread calls lookup(dir)
LookupCall(t, dir) ==
    /\ tpc[t] = "idle"
    /\ ops < MaxOps
    /\ ops' = ops + 1
    /\ targ' = [targ EXCEPT ![t] = [NoArg EXCEPT !.dir = dir]]
    /\ tpc' = [tpc EXCEPT ![t] = "lookup_rlock"]
    /\ tres' = NoLookup
    /\ UNCHANGED <<cache, cacheBy, lock, tloc, nonLockVars>>

\* lookup: c.lock.RLock()
LookupRLock(t) ==
    /\ tpc[t] = "lookup_rlock"
    /\ CanRLock(lock)
    /\ lock' = RLock(lock, t)
    /\ tpc' = [tpc EXCEPT ![t] = "lookup_check"]
    /\ tres' = NoLookup
    /\ UNCHANGED <<cache, cacheBy, targ, tloc, ops, nonLockVars>>

\* lookup: "if !c.cleared && c.dir == dir"; a miss unlocks and returns
LookupCheck(t) ==
    /\ tpc[t] = "lookup_check"
    /\ IF IsHit(cache, targ[t].dir)
       THEN /\ tpc' = [tpc EXCEPT ![t] = "lookup_iv"]
            /\ tres' = NoLookup
            /\ UNCHANGED lock
       ELSE /\ lock' = RUnlock(lock, t)
            /\ tpc' = [tpc EXCEPT ![t] = "idle"]
            /\ tres' = [NoLookup EXCEPT !.by = t]
    /\ UNCHANGED <<cache, cacheBy, targ, tloc, ops, nonLockVars>>

\* lookup: the read of c.iv for the return value
LookupIV(t) ==
    /\ tpc[t] = "lookup_iv"
    /\ tloc' = [tloc EXCEPT ![t] = [iv |-> cache.iv, ivBy |-> cacheBy.iv]]
    /\ tpc' = [tpc EXCEPT ![t] = "lookup_td"]
    /\ tres' = NoLookup
    /\ UNCHANGED <<cache, cacheBy, lock, targ, ops, nonLockVars>>

\* lookup: the read of c.translatedDir, the deferred RUnlock, the return
LookupTD(t) ==
    /\ tpc[t] = "lookup_td"
    /\ lock' = RUnlock(lock, t)
    /\ tres' = [by |-> t, found |-> TRUE, iv |-> tloc[t].iv,
                translatedDir |-> cache.translatedDir,
                ivBy |-> tloc[t].ivBy, tdBy |-> cacheBy.td]
    /\ tloc' = [tloc EXCEPT ![t] = [iv |-> NilIV, ivBy |-> NoTag]]
    /\ tpc' = [tpc EXCEPT ![t] = "idle"]
    /\ UNCHANGED <<cache, cacheBy, targ, ops, nonLockVars>>

\* a thread calls store(dir, iv, translatedDir)
StoreCall(t, a) ==
    /\ tpc[t] = "idle"
    /\ ops < MaxOps
    /\ ops' = ops + 1
    /\ targ' = [targ EXCEPT ![t] = [dir |-> a.dir, iv |-> a.iv,
                                    translatedDir |-> a.translatedDir, n |-> ops + 1]]
    /\ tpc' = [tpc EXCEPT ![t] = "store_lock"]
    /\ tres' = NoLookup
    /\ UNCHANGED <<cache, cacheBy, lock, tloc, nonLockVars>>

\* store: c.lock.Lock()
StoreLock(t) ==
    /\ tpc[t] = "store_lock"
    /\ CanLock(lock)
    /\ lock' = Lock(lock, t)
    /\ tpc' = [tpc EXCEPT ![t] = "store_cleared"]
    /\ tres' = NoLookup
    /\ UNCHANGED <<cache, cacheBy, targ, tloc, ops, nonLockVars>>

\* store: c.cleared = false
StoreCleared(t) ==
    /\ tpc[t] = "store_cleared"
    /\ cache' = [cache EXCEPT !.cleared = FALSE]
    /\ tpc' = [tpc EXCEPT ![t] = "store_iv"]
    /\ tres' = NoLookup
    /\ UNCHANGED <<cacheBy, lock, targ, tloc, ops, nonLockVars>>

\* store: c.iv = iv
StoreIV(t) ==
    /\ tpc[t] = "store_iv"
    /\ cache' = [cache EXCEPT !.iv = targ[t].iv]
    /\ cacheBy' = [cacheBy EXCEPT !.iv = [w |-> t, n |-> targ[t].n]]
    /\ tpc' = [tpc EXCEPT ![t] = "store_dir"]
    /\ tres' = NoLookup
    /\ UNCHANGED <<lock, targ, tloc, ops, nonLockVars>>

\* store: c.dir = dir
StoreDir(t) ==
    /\ tpc[t] = "store_dir"
    /\ cache' = [cache EXCEPT !.dir = targ[t].dir]
    /\ tpc' = [tpc EXCEPT ![t] = "store_td"]
    /\ tres' = NoLookup
    /\ UNCHANGED <<cacheBy, lock, targ, tloc, ops, nonLockVars>>

\* store: c.translatedDir = translatedDir, the deferred Unlock, the return
StoreTD(t) ==
    /\ tpc[t] = "store_td"
    /\ cache' = [cache EXCEPT !.translatedDir = targ[t].translatedDir]
    /\ cacheBy' = [cacheBy EXCEPT !.td = [w |-> t, n |-> targ[t].n]]
    /\ lock' = Unlock(lock, t)
    /\ tpc' = [tpc EXCEPT ![t] = "idle"]
    /\ tres' = NoLookup
    /\ UNCHANGED <<targ, tloc, ops, nonLockVars>>

\* a thread calls Clear()
ClearCall(t) ==
    /\ tpc[t] = "idle"
    /\ ops < MaxOps
    /\ ops' = ops + 1
    /\ targ' = [targ EXCEPT ![t] = NoArg]
    /\ tpc' = [tpc EXCEPT ![t] = "clear_lock"]
    /\ tres' = NoLookup
    /\ UNCHANGED <<cache, cacheBy, lock, tloc, nonLockVars>>

\* Clear: c.lock.Lock()
ClearLock(t) ==
    /\ tpc[t] = "clear_lock"
    /\ CanLock(lock)
    /\ lock' = Lock(lock, t)
    /\ tpc' = [tpc EXCEPT ![t] = "clear_cleared"]
    /\ tres' = NoLookup
    /\ UNCHANGED <<cache, cacheBy, targ, tloc, ops, nonLockVars>>

\* Clear: c.cleared = true, the deferred Unlock, the return
ClearCleared(t) ==
    /\ tpc[t] = "clear_cleared"
    /\ cache' = [cache EXCEPT !.cleared = TRUE]
    /\ lock' = Unlock(lock, t)
    /\ tpc' = [tpc EXCEPT ![t] = "idle"]
    /\ tres' = NoLookup
    /\ UNCHANGED <<cacheBy, targ, tloc, ops, nonLockVars>>

LockIdle ==
    /\ lock = NewLock
    /\ cacheBy = NewCacheBy
    /\ tpc = [t \in Threads |-> "off"]
    /\ targ = [t \in Threads |-> NoArg]
    /\ tloc = [t \in Threads |-> [iv |-> NilIV, ivBy |-> NoTag]]
    /\ tres = NoLookup
    /\ ops = 0

LockInit ==
    /\ cache = NewCache
    /\ lock = NewLock
    /\ cacheBy = NewCacheBy
    /\ tpc = [t \in Threads |-> "idle"]
    /\ targ = [t \in Threads |-> NoArg]
    /\ tloc = [t \in Threads |-> [iv |-> NilIV, ivBy |-> NoTag]]
    /\ tres = NoLookup
    /\ ops = 0

LockNext ==
    \/ \E t \in Threads, dir \in LookupDirs : LookupCall(t, dir)
    \/ \E t \in Threads : LookupRLock(t)
    \/ \E t \in Threads : LookupCheck(t)
    \/ \E t \in Threads : LookupIV(t)
    \/ \E t \in Threads : LookupTD(t)
    \/ \E t \in Threads, a \in StoreCalls : StoreCall(t, a)
    \/ \E t \in Threads : StoreLock(t)
    \/ \E t \in Threads : StoreCleared(t)
    \/ \E t \in Threads : StoreIV(t)
    \/ \E t \in Threads : StoreDir(t)
    \/ \E t \in Threads : StoreTD(t)
    \/ \E t \in Threads : ClearCall(t)
    \/ \E t \in Threads : ClearLock(t)
    \/ \E t \in Threads : ClearCleared(t)

(***************************************************************************)
(* lookup, store and Clear called one after the other on a new cache       *)
(***************************************************************************)
\* cache calls per run
MaxSeqOps == 5

\* the stores of the walks of "d", "d/e", and of "d/e" after d was replaced
SeqStoreCalls ==
    StoreCalls \cup
    {[dir |-> <<PlainName("d")>>, iv |-> RandBytes(0),
      translatedDir |-> <<encryptName(PlainName("d"), RootIV)>>]}
\* the directory strings looked up: "", ".", "d"
SeqLookupDirs == {<<>>} \cup {a.dir : a \in SeqStoreCalls}

NoOp == [op |-> "none", dir |-> <<>>, iv |-> NilIV, translatedDir |-> <<>>]
NoSeqLookup == [called |-> FALSE, dir |-> <<>>, found |-> FALSE, iv |-> NilIV,
                translatedDir |-> <<>>]

\* c.store(dir, iv, translatedDir)
SeqStore(a) ==
    /\ nseq < MaxSeqOps
    /\ cache' = store(cache, a.dir, a.iv, a.translatedDir)
    /\ lastOp' = [op |-> "store", dir |-> a.dir, iv |-> a.iv,
                translatedDir |-> a.translatedDir]
    /\ lk' = NoSeqLookup
    /\ nseq' = nseq + 1
    /\ UNCHANGED nonSeqVars

\* c.Clear()
SeqClear ==
    /\ nseq < MaxSeqOps
    /\ cache' = Clear(cache)
    /\ lastOp' = [NoOp EXCEPT !.op = "Clear"]
    /\ lk' = NoSeqLookup
    /\ nseq' = nseq + 1
    /\ UNCHANGED nonSeqVars

\* c.lookup(dir)
SeqLookup(dir) ==
    /\ nseq < MaxSeqOps
    /\ LET r == lookup(cache, dir)
       IN lk' = [called |-> TRUE, dir |-> dir, found |-> r.found, iv |-> r.iv,
                 translatedDir |-> r.translatedDir]
    /\ nseq' = nseq + 1
    /\ UNCHANGED <<cache, lastOp, nonSeqVars>>

SeqIdle ==
    /\ lastOp = NoOp
    /\ lk = NoSeqLookup
    /\ nseq = 0

SeqInit ==
    /\ cache = NewCache
    /\ SeqIdle

SeqNext ==
    \/ \E a \in SeqStoreCalls : SeqStore(a)
    \/ SeqClear
    \/ \E dir \in SeqLookupDirs : SeqLookup(dir)

(***************************************************************************)
(* ReadDirIV, its ReadFile and its Stat as two steps, while another thread *)
(* removes the directory                                                   *)
(***************************************************************************)
\* the longest gocryptfs.diriv file tried
MaxSentinelLen == 17

\* the directories ReadDirIV is called on
RdDirs ==
    {NoDir, DirWith(NoFile)} \cup
    {DirWith(File(n, id)) : n \in 0..MaxSentinelLen, id \in {RootIV, MountIV, RandBytes(0)}}

NoOut == [returned |-> FALSE, iv |-> NilIV, err |-> "nil", warned |-> FALSE]
Returned(r) == [returned |-> TRUE, iv |-> r.iv, err |-> r.err, warned |-> r.warned]

\* iv, readErr = ioutil.ReadFile(ivfile); on success the length check
RdReadFile ==
    /\ rdPc = "call"
    /\ rdSeen' = rdDir
    /\ IF rdDir.exists /\ rdDir.diriv.present
       THEN /\ rdOut' = Returned(ReadDirIV(rdDir, rdDir))
            /\ rdPc' = "done"
       ELSE /\ rdOut' = rdOut
            /\ rdPc' = "stat"
    /\ UNCHANGED <<rdDir, rdSteps, nonRdVars>>

\* _, statErr := os.Stat(dir); Debug or Warn; return nil, readErr
RdStat ==
    /\ rdPc = "stat"
    /\ rdOut' = Returned(ReadDirIV(rdSeen, rdDir))
    /\ rdPc' = "done"
    /\ UNCHANGED <<rdDir, rdSeen, rdSteps, nonRdVars>>

\* another thread's rmdir unlinks gocryptfs.diriv ...
RdUnlink ==
    /\ rdPc \in {"call", "stat"}
    /\ rdDir.exists /\ rdDir.diriv.present
    /\ rdDir' = DirWith(NoFile)
    /\ rdSteps' = rdSteps + 1
    /\ UNCHANGED <<rdPc, rdSeen, rdOut, nonRdVars>>

\* ... and then removes the directory
RdRmdir ==
    /\ rdPc \in {"call", "stat"}
    /\ rdDir.exists /\ ~rdDir.diriv.present
    /\ rdDir' = NoDir
    /\ rdSteps' = rdSteps + 1
    /\ UNCHANGED <<rdPc, rdSeen, rdOut, nonRdVars>>

RdIdle ==
    /\ rdDir = NoDir
    /\ rdPc = "off"
    /\ rdSeen = NoDir
    /\ rdOut = NoOut
    /\ rdSteps = 0

RdInit ==
    /\ rdDir \in RdDirs
    /\ rdPc = "call"
    /\ rdSeen = NoDir
    /\ rdOut = NoOut
    /\ rdSteps = 0

RdNext == RdReadFile \/ RdStat \/ RdUnlink \/ RdRmdir

(***************************************************************************)
(* main(): one run of the program on a cipher directory                    *)
(***************************************************************************)
\* exit codes
ERREXIT_USAGE == 1
ERREXIT_MOUNT == 3
ERREXIT_CIPHERDIR == 6
ERREXIT_INIT == 7
ERREXIT_LOADCONF == 8
ERREXIT_PASSWORD == 9
ERREXIT_MOUNTPOINT == 10

FlagPlaintextNames == "PlaintextNames"
FlagDirIV == "DirIV"
FlagEMENames == "EMENames"
FlagGCMIV128 == "GCMIV128"
FeatureFlags == {FlagPlaintextNames, FlagDirIV, FlagEMENames, FlagGCMIV128}

\* the passwords typed at the prompts
Passwords == {"hunter2", "hunter3"}
\* flagSet.NArg(): no argument, CIPHERDIR, CIPHERDIR MOUNTPOINT, one too many
NArgs == {0, 1, 2, 3}

\* the command lines: the switches main() dispatches on and hands on
ArgContainers ==
    [init : BOOLEAN, passwd : BOOLEAN, zerokey : BOOLEAN, masterkey : BOOLEAN,
     plaintextnames : BOOLEAN, diriv : BOOLEAN, emenames : BOOLEAN,
     gcmiv128 : BOOLEAN, narg : NArgs, pw : Passwords]
NoArgs ==
    [init |-> FALSE, passwd |-> FALSE, zerokey |-> FALSE, masterkey |-> FALSE,
     plaintextnames |-> FALSE, diriv |-> FALSE, emenames |-> FALSE,
     gcmiv128 |-> FALSE, narg |-> 0, pw |-> "hunter2"]

\* gocryptfs.conf: absent, or feature flags and a key wrapped under pw
NoConf == [present |-> FALSE, flags |-> {}, pw |-> "hunter2"]
Conf(flags, pw) == [present |-> TRUE, flags |-> flags, pw |-> pw]
\* CIPHERDIR: empty, holding other files only, or an initialised filesystem
Disks ==
    {[empty |-> e, conf |-> NoConf, diriv |-> FALSE] : e \in BOOLEAN} \cup
    {[empty |-> FALSE, conf |-> Conf(f, "hunter2"), diriv |-> d] :
        f \in SUBSET FeatureFlags, d \in BOOLEAN}

NoExit == [exited |-> FALSE, code |-> 0]
Exited(code) == [exited |-> TRUE, code |-> code]
NilConfFile == [nil |-> TRUE, flags |-> {}]
NoFrontendArgs ==
    [set |-> FALSE, PlaintextNames |-> FALSE, DirIV |-> FALSE,
     EMENames |-> FALSE, GCMIV128 |-> FALSE]

\* configfile.CreateConfFile: the feature flags of a new config file
CreateConfFlags(plaintextNames) ==
    IF plaintextNames THEN {FlagPlaintextNames}
    ELSE {FlagDirIV, FlagEMENames, FlagGCMIV128}
\* configfile.CreateConfFile(filename, password, plaintextNames, logN)
CreateConfFile(d, password, plaintextNames) ==
    IF d.conf.present
    THEN [err |-> TRUE, disk |-> d]
    ELSE [err |-> FALSE,
          disk |-> [d EXCEPT !.empty = FALSE,
                             !.conf = Conf(CreateConfFlags(plaintextNames), password)]]
\* configfile.LoadConfFile(filename, password)
LoadConfFile(c, password) ==
    IF c.pw = password
    THEN [err |-> FALSE, confFile |-> [nil |-> FALSE, flags |-> c.flags]]
    ELSE [err |-> TRUE, confFile |-> NilConfFile]
\* confFile.IsFeatureFlagSet(flag)
IsFeatureFlagSet(cf, flag) == flag \in cf.flags

\* loadConfig: os.Stat, the password prompt, LoadConfFile
loadConfig(a, d) ==
    IF ~d.conf.present
    THEN [exit |-> Exited(ERREXIT_LOADCONF), confFile |-> NilConfFile]
    ELSE LET l == LoadConfFile(d.conf, a.pw)
         IN IF l.err
            THEN [exit |-> Exited(ERREXIT_LOADCONF), confFile |-> NilConfFile]
            ELSE [exit |-> NoExit, confFile |-> l.confFile]

\* initFuseFrontend: the Args struct from the command line, overridden by
\* the config file's feature flags when there is a config file
Reconcile(a, cf) ==
    IF cf.nil
    THEN [set |-> TRUE, PlaintextNames |-> a.plaintextnames, DirIV |-> a.diriv,
          EMENames |-> a.emenames, GCMIV128 |-> a.gcmiv128]
    ELSE [set |-> TRUE,
          PlaintextNames |-> IsFeatureFlagSet(cf, FlagPlaintextNames),
          DirIV |-> IsFeatureFlagSet(cf, FlagDirIV),
          EMENames |-> IsFeatureFlagSet(cf, FlagEMENames),
          GCMIV128 |-> IsFeatureFlagSet(cf, FlagGCMIV128)]
\* "EMENames implies DirIV"
ImplyDirIV(fa) == IF fa.EMENames THEN [fa EXCEPT !.DirIV = TRUE] ELSE fa
\* "PlainTexnames disables both EMENames and DirIV"
DisableNames_KeepsEMENames(fa) ==
    IF fa.PlaintextNames THEN [fa EXCEPT !.DirIV = FALSE] ELSE fa
DisableNames(fa) ==
    IF fa.PlaintextNames THEN [fa EXCEPT !.DirIV = FALSE, !.EMENames = FALSE] ELSE fa
Normalize(fa) == DisableNames(ImplyDirIV(fa))

\* os.Exit(code)
Exit(code) ==
    /\ exit' = Exited(code)
    /\ cliPc' = "exited"

\* main() up to the operation flags: CIPHERDIR, then -init, -passwd or mount
Main ==
    /\ cliPc = "main"
    /\ \E cipherdirOk \in BOOLEAN :
          IF args.narg < 1 THEN Exit(ERREXIT_USAGE)
          ELSE IF ~cipherdirOk THEN Exit(ERREXIT_CIPHERDIR)
          ELSE IF args.init
               THEN IF args.narg > 1 THEN Exit(ERREXIT_USAGE)
                    ELSE cliPc' = "initDir" /\ exit' = exit
          ELSE IF args.passwd
               THEN IF args.narg > 1 THEN Exit(ERREXIT_USAGE)
                    ELSE cliPc' = "changePassword" /\ exit' = exit
          ELSE IF args.narg # 2 THEN Exit(ERREXIT_USAGE)
          ELSE cliPc' = "mountpoint" /\ exit' = exit
    /\ UNCHANGED <<args, disk, confFile, frontendArgs, nonCliVars>>

\* initDir
InitDir ==
    /\ cliPc = "initDir"
    /\ IF ~disk.empty
       THEN Exit(ERREXIT_INIT) /\ disk' = disk
       ELSE LET c == CreateConfFile(disk, args.pw, args.plaintextnames)
            IN IF c.err
               THEN Exit(ERREXIT_INIT) /\ disk' = disk
               ELSE /\ disk' = [c.disk EXCEPT
                                   !.diriv = args.diriv /\ ~args.plaintextnames]
                    /\ Exit(0)
    /\ UNCHANGED <<args, confFile, frontendArgs, nonCliVars>>

\* changePassword
ChangePassword ==
    /\ cliPc = "changePassword"
    /\ LET l == loadConfig(args, disk)
       IN IF l.exit.exited
          THEN /\ exit' = l.exit
               /\ cliPc' = "exited"
               /\ UNCHANGED <<disk, confFile>>
          ELSE \E newPw \in Passwords :
                 /\ confFile' = l.confFile
                 /\ disk' = [disk EXCEPT !.conf.pw = newPw]
                 /\ Exit(0)
    /\ UNCHANGED <<args, frontendArgs, nonCliVars>>

\* main(): "Check mountpoint"
CheckMountpoint ==
    /\ cliPc = "mountpoint"
    /\ \E mountpointOk \in BOOLEAN :
          IF mountpointOk THEN cliPc' = "masterkey" /\ exit' = exit
          ELSE Exit(ERREXIT_MOUNTPOINT)
    /\ UNCHANGED <<args, disk, confFile, frontendArgs, nonCliVars>>

\* main(): "Get master key"
GetMasterKey ==
    /\ cliPc = "masterkey"
    /\ IF args.masterkey \/ args.zerokey
       THEN /\ confFile' = NilConfFile
            /\ cliPc' = "frontend"
            /\ exit' = exit
       ELSE LET l == loadConfig(args, disk)
            IN /\ confFile' = l.confFile
               /\ exit' = l.exit
               /\ cliPc' = IF l.exit.exited THEN "exited" ELSE "frontend"
    /\ UNCHANGED <<args, disk, frontendArgs, nonCliVars>>

\* initFuseFrontend
InitFuseFrontend ==
    /\ cliPc = "frontend"
    /\ frontendArgs' = Normalize(Reconcile(args, confFile))
    /\ \E mounted \in BOOLEAN :
          IF mounted THEN cliPc' = "serve" /\ exit' = exit
          ELSE Exit(ERREXIT_MOUNT)
    /\ UNCHANGED <<args, disk, confFile, nonCliVars>>

\* srv.Serve() returns on the unmount request; main exits with code 0
Serve ==
    /\ cliPc = "serve"
    /\ Exit(0)
    /\ UNCHANGED <<args, disk, confFile, frontendArgs, nonCliVars>>

CliIdle ==
    /\ args = NoArgs
    /\ disk = [empty |-> TRUE, conf |-> NoConf, diriv |-> FALSE]
    /\ cliPc = "off"
    /\ exit = NoExit
    /\ confFile = NilConfFile
    /\ frontendArgs = NoFrontendArgs

CliInit ==
    /\ args \in ArgContainers
    /\ disk \in Disks
    /\ cliPc = "main"
    /\ exit = NoExit
    /\ confFile = NilConfFile
    /\ frontendArgs = NoFrontendArgs

CliNext ==
    \/ Main
    \/ InitDir
    \/ ChangePassword
    \/ CheckMountpoint
    \/ GetMasterKey
    \/ InitFuseFrontend
    \/ Serve

(***************************************************************************)
(* Specifications                                                          *)
(***************************************************************************)
\* concurrent EncryptPathDirIV callers and a mutating thread
Init ==
    /\ WalkInit
    /\ PadIdle
    /\ LockIdle
    /\ SeqIdle
    /\ RdIdle
    /\ CliIdle

Spec == Init /\ [][Next]_vars

\* pad16 and unPad16 applied to bounded inputs
InitPad ==
    /\ PadInit
    /\ cache = NewCache
    /\ WalkIdle
    /\ LockIdle
    /\ SeqIdle
    /\ RdIdle
    /\ CliIdle

SpecPad == InitPad /\ [][PadNext]_vars

\* lookup, store and Clear called concurrently, access by access
InitLock ==
    /\ LockInit
    /\ WalkIdle
    /\ PadIdle
    /\ SeqIdle
    /\ RdIdle
    /\ CliIdle

SpecLock == InitLock /\ [][LockNext]_vars

\* lookup, store and Clear called one after the other on a new cache
InitCache ==
    /\ SeqInit
    /\ WalkIdle
    /\ PadIdle
    /\ LockIdle
    /\ RdIdle
    /\ CliIdle

SpecCache == InitCache /\ [][SeqNext]_vars

\* one ReadDirIV call on a directory another thread may be removing
InitReadDirIV ==
    /\ RdInit
    /\ cache = NewCache
    /\ WalkIdle
    /\ PadIdle
    /\ LockIdle
    /\ SeqIdle
    /\ CliIdle

SpecReadDirIV == InitReadDirIV /\ [][RdNext]_vars

\* one run of main() for every command line and cipher directory
InitCli ==
    /\ CliInit
    /\ cache = NewCache
    /\ WalkIdle
    /\ PadIdle
    /\ LockIdle
    /\ SeqIdle
    /\ RdIdle

SpecCli == InitCli /\ [][CliNext]_vars

(***************************************************************************)
(* Claims about EncryptPathDirIV and the cache (checked under Spec)        *)
(***************************************************************************)
\* C1: once the Clear() of a directory mutation has returned, no later
\* EncryptPathDirIV call is served by a cache hit whose entry was read from
\* the backing store before that mutation.
C1_NoStaleHit ==
    res.served = "hit" => res.gen >= res.startCovered

\* C4: when EncryptPathDirIV(plainPath) with a non-empty plainPath has
\* walked without error, the cache holds a non-cleared entry for the parent
\* of plainPath, with the IV read from the ciphertext directory that
\* contains the last component and with the parent of the returned
\* cipherPath, and a lookup of the parent of plainPath hits with them.
C4_WalkCachesParent ==
    res.served = "walk" =>
        /\ ~cache.cleared
        /\ cache.dir = Dir(res.plainPath)
        /\ cache.iv = res.ivRead
        /\ res.ivFrom = IF Dir(res.cipherPath) = <<Dot>> THEN <<RootDir>>
                        ELSE <<RootDir, Slash>> \o Dir(res.cipherPath)
        /\ cache.translatedDir = Dir(res.cipherPath)
        /\ lookup(cache, Dir(res.plainPath)) =
               [found |-> TRUE, iv |-> res.ivRead, translatedDir |-> Dir(res.cipherPath)]

\* a walk of d/e returned and left the entry of d in the cache
C4_Witness ==
    /\ res.served = "walk"
    /\ res.plainPath = <<PlainName("d"), Slash, PlainName("e")>>
    /\ res.ivRead = MountIV
    /\ cache.dir = <<PlainName("d")>>
    /\ cache.translatedDir = <<encryptName(PlainName("d"), RootIV)>>
    /\ lookup(cache, <<PlainName("d")>>).found

\* the walk of EncryptPathDirIV as one computation on the backing store f:
\* the names still to encrypt, the directory reached, the names encrypted
RECURSIVE WalkFrom(_, _, _, _)
WalkFrom(f, plainNames, wd, encryptedNames) ==
    IF plainNames = <<>> THEN JoinNames(encryptedNames)
    ELSE LET r == ReadDirIV(DirAt(f, wd), DirAt(f, wd))
             encryptedName == encryptName(Head(plainNames), r.iv)
         IN  IF r.err # "nil" THEN <<>>
             ELSE WalkFrom(f, Tail(plainNames), JoinPath(wd, encryptedName),
                           Append(encryptedNames, encryptedName))
\* the cipherPath the full walk from rootDir returns for plainPath
WalkPath(f, plainPath) == WalkFrom(f, Split(plainPath), <<RootDir>>, <<>>)

\* C12: with the backing store unchanged, a call served from the cache
\* returns the same ciphertext path string as the full walk from rootDir.
C12_HitEqualsWalk ==
    (res.served = "hit" /\ mutCount = 0 /\ fs = MountedStore) =>
        res.cipherPath = WalkPath(fs, res.plainPath)

(***************************************************************************)
(* Claims about the cache's lock (checked under SpecLock)                  *)
(***************************************************************************)
\* a thread is between Lock and Unlock of store or Clear
InWrite(t) == tpc[t] \in {"store_cleared", "store_iv", "store_dir", "store_td", "clear_cleared"}
\* a thread is between RLock and RUnlock of lookup
InRead(t) == tpc[t] \in {"lookup_check", "lookup_iv", "lookup_td"}

\* C2: a store or Clear is never inside its critical section together with
\* another cache operation, and every lookup hit returns an iv and a
\* cipherDir that one single store call wrote together.
C2_LockDiscipline ==
    /\ \A t \in Threads : InWrite(t) =>
           \A u \in Threads \ {t} : ~InWrite(u) /\ ~InRead(u)
    /\ tres.found =>
           /\ tres.ivBy # NoTag
           /\ tres.ivBy = tres.tdBy
           /\ \E a \in StoreCalls : a.iv = tres.iv /\ a.translatedDir = tres.translatedDir

\* two lookups that hit are inside the critical section at once
C2_Witness ==
    /\ tpc["t1"] = "lookup_td"
    /\ tpc["t2"] = "lookup_iv"
    /\ lock.readers = {"t1", "t2"}

SawGoodSentinel ==
    rdSeen.exists /\ rdSeen.diriv.present /\ rdSeen.diriv.len = dirIVLen

\* C8: ReadDirIV returns an IV only for a sentinel of exactly 16 bytes; when
\* the directory is gone it returns the not-found error and does not warn;
\* when the directory exists and the sentinel is missing or not 16 bytes long
\* it returns an error and warns.
C8_ReadDirIVClassifies ==
    rdOut.returned =>
        /\ rdOut.err = "nil" <=> rdOut.iv # NilIV
        /\ rdOut.iv # NilIV => SawGoodSentinel /\ rdOut.iv = rdSeen.diriv.id
        /\ (~rdDir.exists /\ ~SawGoodSentinel) =>
               rdOut.err = "ENOENT" /\ ~rdOut.warned
        /\ (rdDir.exists /\ ~SawGoodSentinel) =>
               rdOut.err # "nil" /\ rdOut.warned

(***************************************************************************)
(* Claims about main() (checked under SpecCli)                             *)
(***************************************************************************)
\* C9: the arguments handed to the filesystem frontend satisfy
\* PlaintextNames => ~DirIV /\ ~EMENames, and EMENames => DirIV, whatever
\* the command line and the config file said.
C9_FlagsNormalized ==
    frontendArgs.set =>
        /\ frontendArgs.PlaintextNames =>
               ~frontendArgs.DirIV /\ ~frontendArgs.EMENames
        /\ frontendArgs.EMENames => frontendArgs.DirIV

\* a config file carrying both PlaintextNames and EMENames was loaded and
\* the frontend got PlaintextNames alone
C9_Witness ==
    /\ frontendArgs.set
    /\ ~confFile.nil
    /\ {FlagPlaintextNames, FlagEMENames} \subseteq confFile.flags
    /\ frontendArgs.PlaintextNames
    /\ ~frontendArgs.EMENames
    /\ ~frontendArgs.DirIV

\* C10: when -init has exited with code 0, CIPHERDIR holds gocryptfs.diriv
\* exactly when the config file it created has the DirIV feature flag.
C10_InitSentinelIffDirIV ==
    (args.init /\ exit.exited /\ exit.code = 0) =>
        (disk.diriv <=> IsFeatureFlagSet(disk.conf, FlagDirIV))

\* C11: a mount that loads the master key from the config file and is given
\* a wrong passphrase ends the process with exit code 9.
C11_WrongPasswordExit9 ==
    [][(/\ cliPc = "masterkey"
        /\ ~args.masterkey /\ ~args.zerokey
        /\ disk.conf.present
        /\ args.pw # disk.conf.pw
        /\ exit'.exited)
       => exit'.code = ERREXIT_PASSWORD]_vars

(***************************************************************************)
(* Claims about padding (checked under SpecPad)                            *)
(***************************************************************************)
\* C5: for every non-empty b, pad16(b) has the smallest length that is a
\* multiple of 16 and strictly greater than len(b), and unPad16(pad16(b))
\* returns b without error.
C5_PadRoundTrip ==
    /\ (padStage \in {"padded", "unpadded"} /\ Len(padIn) > 0) =>
           /\ padded.kind = "ok"
           /\ Len(padded.data) % BlockSize = 0
           /\ Len(padded.data) > Len(padIn)
           /\ Len(padded.data) - BlockSize <= Len(padIn)
    /\ padStage = "unpadded" =>
           /\ unpadded.kind = "ok"
           /\ unpadded.data = padIn

\* a 16-byte input got a full padding block and came back
C5_Witness ==
    /\ padStage = "unpadded"
    /\ Len(padIn) = BlockSize
    /\ Len(padded.data) = 2 * BlockSize
    /\ unpadded.kind = "ok"
    /\ unpadded.data = padIn

\* C6: unPad16 returns an error (no crash, no data) for every input whose
\* length is not a positive multiple of 16, the empty input included.
C6_UnPadRejectsBadLength ==
    (padStage = "direct" /\ (Len(padIn) = 0 \/ Len(padIn) % BlockSize # 0)) =>
        /\ unpadded.kind = "err"
        /\ unpadded.data = <<>>

\* C7: for an input whose length is a positive multiple of 16, unPad16
\* returns an error when the last byte is outside 1..16, when one of the
\* last padLen bytes differs from the last byte, or when nothing would be
\* left; otherwise it returns the input without its last padLen bytes.
C7_UnPadClassifies ==
    (padStage = "direct" /\ Len(padIn) > 0 /\ Len(padIn) % BlockSize = 0) =>
        LET n    == Len(padIn)
            last == padIn[n]
            bad  == \/ last \notin 1..16
                    \/ \E k \in 1..last : padIn[n - k + 1] # last
                    \/ n - last = 0
        IN  IF bad
            THEN unpadded.kind = "err" /\ unpadded.data = <<>>
            ELSE unpadded.kind = "ok" /\ unpadded.data = SubSeq(padIn, 1, n - last)

\* a 32-byte input with three padding bytes was unpadded to 29 bytes
C7_Witness ==
    /\ padStage = "direct"
    /\ Len(padIn) = 2 * BlockSize
    /\ padIn[Len(padIn)] = 3
    /\ unpadded.kind = "ok"
    /\ Len(unpadded.data) = 2 * BlockSize - 3

====
